---- MODULE Spec2Model ----
(***************************************************************************)
(* A model of package ottomatic (src/ottomatic.go): the tag parser gettag, *)
(* the recursive binder Register / RegisterTo / RegisterToAliases and the  *)
(* dotted-path resolver DeepGet, over a small model of the Otto runtime    *)
(* (a heap of JavaScript objects, the first of which is the global         *)
(* object).                                                                *)
(*                                                                         *)
(* Go strings are sequences of one-character strings, so that              *)
(* strings.Split, strings.HasPrefix and strings.TrimPrefix are computed    *)
(* character by character.                                                 *)
(***************************************************************************)
EXTENDS Integers, Sequences, FiniteSets, TLC

VARIABLES heap, bound, got, calls, tagIn, tagOut, stack

vars == <<heap, bound, got, calls, tagIn, tagOut, stack>>

(***************************************************************************)
(* Bounds of the model.                                                    *)
(***************************************************************************)
\* the number of comma-separated tokens of the tags the parser is run on
MaxToks == 3
\* the number of binding and mutating calls made on one runtime
MaxCalls == 2

(***************************************************************************)
(* package strings                                                         *)
(***************************************************************************)
\* strings.HasPrefix(s, p)
HasPrefix(s, p) ==
    /\ Len(s) >= Len(p)
    /\ \A i \in 1..Len(p) : s[i] = p[i]

\* strings.TrimPrefix(s, p)
TrimPrefix(s, p) ==
    IF HasPrefix(s, p) THEN SubSeq(s, Len(p) + 1, Len(s)) ELSE s

\* the index of the first occurrence of the character sep in s at or after
\* position i, or 0 when there is none
RECURSIVE IndexFrom(_, _, _)
IndexFrom(s, sep, i) ==
    IF i > Len(s) THEN 0
    ELSE IF s[i] = sep THEN i
    ELSE IndexFrom(s, sep, i + 1)

\* strings.Split(s, sep) for a one-character separator: one more piece than
\* there are separators, so Split("", sep) = [""]
RECURSIVE Split(_, _)
Split(s, sep) ==
    LET i == IndexFrom(s, sep, 1) IN
    IF i = 0 THEN <<s>>
    ELSE <<SubSeq(s, 1, i - 1)>> \o Split(SubSeq(s, i + 1, Len(s)), sep)

\* strings.Join(a, sep) for a one-character separator
RECURSIVE Join(_, _)
Join(a, sep) ==
    IF Len(a) = 0 THEN <<>>
    ELSE IF Len(a) = 1 THEN a[1]
    ELSE a[1] \o <<sep>> \o Join(Tail(a), sep)

\* the literals of the source
AliasPrefix == <<"a", "l", "i", "a", "s", "=">>
OmitName == <<"-">>

(***************************************************************************)
(* gettag                                                                  *)
(***************************************************************************)
\* type ottoTag; aliases is nil (the empty sequence) unless appended to
ottoTag(name, omit, aliases) ==
    [name |-> name, omit |-> omit, aliases |-> aliases]

\* the loop over data[1:]: append the suffix of every item that starts with
\* "alias=", in order; every other item falls through the switch
RECURSIVE ScanParams(_, _)
ScanParams(items, aliases) ==
    IF Len(items) = 0 THEN aliases
    ELSE ScanParams(Tail(items),
                    IF HasPrefix(Head(items), AliasPrefix)
                    THEN Append(aliases, TrimPrefix(Head(items), AliasPrefix))
                    ELSE aliases)

\* the loop with a fault: it stops at the first item that is not an alias
RECURSIVE ScanParamsStopAtUnknown(_, _)
ScanParamsStopAtUnknown(items, aliases) ==
    IF Len(items) = 0 THEN aliases
    ELSE IF HasPrefix(Head(items), AliasPrefix)
    THEN ScanParamsStopAtUnknown(Tail(items),
             Append(aliases, TrimPrefix(Head(items), AliasPrefix)))
    ELSE aliases

\* gettag with a fault: an unknown parameter ends the scan
gettagStopAtUnknown(field) ==
    LET t == field.Tag IN
    IF Len(t) = 0 THEN ottoTag(field.Name, FALSE, <<>>)
    ELSE LET data == Split(t, ",")
             n == data[1]
         IN  IF n = OmitName THEN ottoTag(field.Name, TRUE, <<>>)
             ELSE IF Len(data) = 1 THEN ottoTag(n, FALSE, <<>>)
             ELSE ottoTag(n, FALSE, ScanParamsStopAtUnknown(Tail(data), <<>>))

\* gettag(field *reflect.StructField): field.Tag is the value of the otto
\* key of the struct tag, field.Name the Go name of the field
gettag(field) ==
    LET t == field.Tag IN
    IF Len(t) = 0 THEN ottoTag(field.Name, FALSE, <<>>)
    ELSE LET data == Split(t, ",")
             n == data[1]
         IN  IF n = OmitName THEN ottoTag(field.Name, TRUE, <<>>)
             ELSE IF Len(data) = 1 THEN ottoTag(n, FALSE, <<>>)
             ELSE ottoTag(n, FALSE, ScanParams(Tail(data), <<>>))

(***************************************************************************)
(* The tags and fields the parser is run on.                               *)
(***************************************************************************)
\* comma-free tokens: empty, the omit sentinel, plain names, alias
\* parameters (one with an empty name), and parameters gettag does not know
TagTokens ==
    { <<>>,
      <<"-">>,
      <<"n">>,
      <<"a", "l", "i", "a", "s", "=", "k">>,
      <<"a", "l", "i", "a", "s", "=", "j">>,
      <<"a", "l", "i", "a", "s", "=">>,
      <<"a", "l", "i", "a", "s">>,
      <<"o", "m", "i", "t", "e", "m", "p", "t", "y">> }

RECURSIVE SeqsUpTo(_, _)
SeqsUpTo(S, n) ==
    IF n = 0 THEN { <<>> }
    ELSE LET shorter == SeqsUpTo(S, n - 1) IN
         shorter \cup { Append(q, x) : q \in shorter, x \in S }

TokenLists == SeqsUpTo(TagTokens, MaxToks) \ { <<>> }

FieldNames == { <<"F">>, <<"G">> }

NoTag == [none |-> TRUE]

TagInputs ==
    { [toks |-> tl, field |-> [Name |-> f, Tag |-> Join(tl, ",")]] :
        tl \in TokenLists, f \in FieldNames }

(***************************************************************************)
(* Host (Go) values.  A value is [kind, val]; a struct's val is the        *)
(* sequence of its fields [Name, Tag, val] in declaration order; a         *)
(* pointer's val is an address in HostMem, or 0 for a nil pointer.         *)
(***************************************************************************)
GoString(s) == [kind |-> "String", val |-> s]
GoInt(i) == [kind |-> "Int", val |-> i]
GoFunc(f) == [kind |-> "Func", val |-> f]
GoMap(m) == [kind |-> "Map", val |-> m]
GoChan == [kind |-> "Chan", val |-> 0]
GoNil == [kind |-> "Invalid", val |-> 0]
GoPtr(a) == [kind |-> "Ptr", val |-> a]
GoStruct(fields) == [kind |-> "Struct", val |-> fields]
Field(name, tag, v) == [Name |-> name, Tag |-> tag, val |-> v]

\* type InnerObject struct { Value int `otto:"value"` }, Value: 42
InnerObject == GoStruct(<< Field(<<"V">>, <<"v">>, GoInt(42)) >>)

\* type ObjectWithMethods of the tests, bound by pointer, with an alias
\* declared on Inner: Name `n`, Sum `s`, Inner `i,alias=j`, SkipMe `-`,
\* and NoTag without a tag
ObjectWithMethods ==
    GoStruct(<< Field(<<"N">>, <<"n">>, GoString(<<"a">>)),
                Field(<<"S">>, <<"s">>, GoFunc(1)),
                Field(<<"I">>, <<"i", ",", "a", "l", "i", "a", "s", "=", "j">>,
                      GoPtr(1)),
                Field(<<"K">>, <<"-">>, GoInt(1)),
                Field(<<"P">>, <<>>, GoInt(24)) >>)

\* type Node struct { Val int `otto:"val"`; Next *Node `otto:"next"` }:
\* a node whose Next is the address next in HostMem
Node(val, next) ==
    GoStruct(<< Field(<<"V">>, <<"v">>, GoInt(val)),
                Field(<<"X">>, <<"x">>, GoPtr(next)) >>)

\* the pointees of the pointers of the model: the InnerObject and the
\* ObjectWithMethods the tests take the address of; then a Node whose Next
\* is the node itself (3), two Nodes each the Next of the other (4, 5), and
\* a list of two Nodes ending in a nil Next (6, 7)
HostMem ==
    << InnerObject, ObjectWithMethods,
       Node(1, 3), Node(2, 5), Node(3, 4), Node(4, 7), Node(5, 0) >>

\* a struct with a channel between two integers
WithChan ==
    GoStruct(<< Field(<<"A">>, <<"a">>, GoInt(1)),
                Field(<<"C">>, <<"c">>, GoChan),
                Field(<<"B">>, <<"b">>, GoInt(2)) >>)

\* an omitted field K, and a later field exposed under the name K
OmitClash ==
    GoStruct(<< Field(<<"K">>, <<"-">>, GoInt(1)),
                Field(<<"X">>, <<"K">>, GoInt(2)) >>)

\* a struct field with alias j, and a later field exposed under j
AliasClash ==
    GoStruct(<< Field(<<"I">>, <<"i", ",", "a", "l", "i", "a", "s", "=", "j">>,
                      InnerObject),
                Field(<<"J">>, <<"j">>, GoInt(3)) >>)

\* the zero value of a struct with an aliased pointer field: Inner is nil
NilInner ==
    GoStruct(<< Field(<<"I">>, <<"i", ",", "a", "l", "i", "a", "s", "=", "j">>,
                      GoPtr(0)),
                Field(<<"P">>, <<>>, GoInt(0)) >>)

\* three levels of structs by value, the middle one with two aliases
Nested ==
    GoStruct(<< Field(<<"M">>, <<"m", ",", "a", "l", "i", "a", "s", "=", "k",
                                 ",", "a", "l", "i", "a", "s", "=", "j">>,
                      GoStruct(<< Field(<<"I">>, <<"i">>, InnerObject) >>)) >>)

LeafValues == { GoString(<<"w">>), GoInt(5), GoFunc(2), GoMap(1) }
UnsupportedValues == { GoChan, GoNil, GoPtr(0) }
\* owm := &ObjectWithMethods{...} is registered by pointer, the other
\* structs by value
StructValues ==
    { GoPtr(2), WithChan, OmitClash, AliasClash, NilInner, Nested }
HostValues == LeafValues \cup UnsupportedValues \cup StructValues

\* reflect.Indirect(reflect.ValueOf(v)): one pointer is followed, and a nil
\* pointer gives the zero Value, whose kind is Invalid
Indirect(v) ==
    IF v.kind = "Ptr"
    THEN IF v.val = 0 THEN GoNil ELSE HostMem[v.val]
    ELSE v

\* case reflect.UnsafePointer, reflect.Chan, reflect.Invalid
UnsupportedKinds == { "UnsafePointer", "Chan", "Invalid" }

(***************************************************************************)
(* The Otto runtime: heap is a sequence of objects [class, props, host];   *)
(* heap[Global] is the global object, which *otto.Otto reads and writes.   *)
(* A JavaScript value is [t, v]; the v of an object value is its index in  *)
(* heap.                                                                   *)
(***************************************************************************)
Global == 1

Undefined == [t |-> "undefined", v |-> 0]
JsObject(id) == [t |-> "object", v |-> id]
NoHost == [kind |-> "None", val |-> 0]
NewObject(class, host) == [class |-> class, props |-> << >>, host |-> host]

\* errors
Nil == [e |-> "nil", k |-> <<>>]
ErrUnsupportedKind == [e |-> "unsupported kind", k |-> <<>>]
ErrUndefined(k) == [e |-> "undefined value", k |-> k]
ErrNilObject == [e |-> "nil object", k |-> <<>>]
ErrBridge == [e |-> "SyntaxError", k |-> <<>>]
\* a run-time panic: the call does not return
Panic == [e |-> "panic", k |-> <<>>]

\* the value of property name of object id, undefined when it has none
GetProp(h, id, name) ==
    IF name \in DOMAIN h[id].props THEN h[id].props[name] ELSE Undefined

PutProp(h, id, name, jv) ==
    [h EXCEPT ![id].props =
        [x \in (DOMAIN @) \cup {name} |-> IF x = name THEN jv ELSE @[x]]]

\* ToValue with a fault: an *otto.Object is copied, so that every name it
\* is set under gets an object of its own
ToValueCopiesObject(h, v) ==
    CASE v.kind = "String" -> [heap |-> h, val |-> [t |-> "string", v |-> v.val]]
      [] v.kind = "Int" -> [heap |-> h, val |-> [t |-> "number", v |-> v.val]]
      [] v.kind = "Bool" -> [heap |-> h, val |-> [t |-> "boolean", v |-> v.val]]
      [] v.kind = "Func" ->
            [heap |-> Append(h, NewObject("Function", v)),
             val |-> JsObject(Len(h) + 1)]
      [] v.kind = "Map" ->
            [heap |-> Append(h, NewObject("GoMap", v)),
             val |-> JsObject(Len(h) + 1)]
      [] v.kind = "Object" ->
            [heap |-> Append(h, h[v.val]), val |-> JsObject(Len(h) + 1)]
      [] OTHER -> [heap |-> h, val |-> Undefined]

\* the conversion Set applies to a Go value: strings, numbers and booleans
\* become primitives; a function or a map becomes a new object that wraps
\* it; an *otto.Object is the object it refers to
ToValue(h, v) ==
    CASE v.kind = "String" -> [heap |-> h, val |-> [t |-> "string", v |-> v.val]]
      [] v.kind = "Int" -> [heap |-> h, val |-> [t |-> "number", v |-> v.val]]
      [] v.kind = "Bool" -> [heap |-> h, val |-> [t |-> "boolean", v |-> v.val]]
      [] v.kind = "Func" ->
            [heap |-> Append(h, NewObject("Function", v)),
             val |-> JsObject(Len(h) + 1)]
      [] v.kind = "Map" ->
            [heap |-> Append(h, NewObject("GoMap", v)),
             val |-> JsObject(Len(h) + 1)]
      [] v.kind = "Object" -> [heap |-> h, val |-> JsObject(v.val)]
      [] OTHER -> [heap |-> h, val |-> Undefined]

\* the Go value a JavaScript value gives back (ToString, ToInteger, Export,
\* or a call of the function)
Export(h, jv) ==
    CASE jv.t = "string" -> GoString(jv.v)
      [] jv.t = "number" -> GoInt(jv.v)
      [] jv.t = "boolean" -> [kind |-> "Bool", val |-> jv.v]
      [] jv.t = "object" -> h[jv.v].host
      [] OTHER -> GoNil

\* ObjectSetter.Set(name, val) on object id
Set(h, id, name, v) ==
    LET c == ToValue(h, v) IN PutProp(c.heap, id, name, c.val)

\* ObjectGetter.Get(name) on object id
Get(h, id, name) == [val |-> GetProp(h, id, name), err |-> Nil]

\* the characters that cannot be part of a JavaScript identifier
Punctuation == { ".", ",", "=", "-", " ", "{", "}" }

IsIdentifier(s) == Len(s) > 0 /\ \A i \in 1..Len(s) : s[i] \notin Punctuation

ObjectLiteral == <<" ", "=", " ", "{", "}">>

\* o.Object(src) for src = n + " = {}": the script assigns a new empty
\* object to the global variable n and the call returns that object; a
\* left-hand side that is no identifier is an error of the engine.  (The
\* names that reach this call in the model are identifiers or empty.)
Object(h, src) ==
    LET lhs == SubSeq(src, 1, Len(src) - Len(ObjectLiteral)) IN
    IF IsIdentifier(lhs)
    THEN [heap |-> PutProp(Append(h, NewObject("Object", NoHost)), Global,
                           lhs, JsObject(Len(h) + 1)),
          obj |-> Len(h) + 1, err |-> Nil]
    ELSE [heap |-> h, obj |-> 0, err |-> ErrBridge]

(***************************************************************************)
(* Register, RegisterTo, RegisterToAliases                                 *)
(***************************************************************************)
\* obj.Set(n, v) and then obj.Set(a, v) for every alias a
RECURSIVE SetNames(_, _, _, _)
SetNames(h, obj, names, v) ==
    IF Len(names) = 0 THEN h
    ELSE SetNames(Set(h, obj, Head(names), v), obj, Tail(names), v)

RECURSIVE RegisterToAliases(_, _, _, _, _)
RECURSIVE ScanFields(_, _, _, _)

\* ScanFields with a fault: the omit flag of the tag is not looked at
ScanFieldsBindsOmitted(h, fields, i, s) ==
    IF i > Len(fields) THEN h
    ELSE LET f == fields[i]
             ot == gettag(f)
             iface == f.val
         IN  ScanFields(RegisterToAliases(ot.name, iface, s, ot.aliases, h).heap,
                        fields, i + 1, s)

\* the loop over the fields of a struct: the field is bound into s unless
\* its tag omits it, and the result of the recursive call is dropped
ScanFields(h, fields, i, s) ==
    IF i > Len(fields) THEN h
    ELSE LET f == fields[i]
             ot == gettag(f)
             iface == f.val
         IN  IF ~ot.omit
             THEN ScanFields(RegisterToAliases(ot.name, iface, s, ot.aliases, h).heap,
                             fields, i + 1, s)
             ELSE ScanFields(h, fields, i + 1, s)

\* RegisterToAliases(n, v, o, obj, aliases) on the runtime whose heap is h:
\* the heap it leaves and the error it returns
RegisterToAliases(n, v, obj, aliases, h) ==
    LET val == Indirect(v) IN
    IF val.kind \in UnsupportedKinds
    THEN [heap |-> h, err |-> ErrUnsupportedKind]
    ELSE IF val.kind = "Struct"
    THEN LET r == Object(h, n \o ObjectLiteral) IN
         IF r.err # Nil THEN [heap |-> h, err |-> r.err]
         ELSE LET h2 == ScanFields(r.heap, val.val, 1, r.obj)
                  s == [kind |-> "Object", val |-> r.obj]
              IN  [heap |-> SetNames(h2, obj, <<n>> \o aliases, s), err |-> Nil]
    ELSE [heap |-> SetNames(h, obj, <<n>> \o aliases, v), err |-> Nil]

RegisterTo(n, v, obj, h) == RegisterToAliases(n, v, obj, <<>>, h)

Register(n, v, h) == RegisterTo(n, v, Global, h)

(***************************************************************************)
(* DeepGet                                                                 *)
(***************************************************************************)
\* an ObjectGetter: an interface value holding a pointer; ptr is 0 for a nil
\* pointer, and type is "nil" only for the nil interface
Getter(type, ptr) == [type |-> type, ptr |-> ptr]

\* v.Object(): the object of the value, or a nil *otto.Object when the
\* value is not an object
ValueObject(jv) == IF jv.t = "object" THEN jv.v ELSE 0

\* IfaceIsNil with a fault: an interface holding a nil pointer counts as nil
IfaceIsNilPtr(x) == x.type = "nil" \/ x.ptr = 0

\* obj == nil for an interface value: true of the nil interface only, so
\* false of an ObjectGetter that holds a nil *otto.Object
IfaceIsNil(x) == x.type = "nil"

IsUndefined(jv) == jv.t = "undefined"

\* UndefinedError with a fault: the whole key is reported
UndefinedErrorWholeKey(key, k) == ErrUndefined(key)

\* ErrUndefined(k) for the segment k of key
UndefinedError(key, k) == ErrUndefined(k)

\* the loop over keys from segment i on; obj is the ObjectGetter and v the
\* value the previous iteration left; fetched lists the segments fetched
RECURSIVE DeepGetLoop(_, _, _, _, _, _, _)
DeepGetLoop(h, key, keys, i, obj, v, fetched) ==
    IF i > Len(keys) THEN [val |-> v, err |-> Nil, fetched |-> fetched]
    ELSE IF obj.ptr = 0
    THEN \* Get is called through a nil *otto.Object
         [val |-> Undefined, err |-> Panic, fetched |-> fetched]
    ELSE LET k == keys[i]
             g == Get(h, obj.ptr, k)
             f2 == Append(fetched, k)
         IN  IF g.err # Nil THEN [val |-> g.val, err |-> g.err, fetched |-> f2]
             ELSE IF IsUndefined(g.val)
             THEN [val |-> g.val, err |-> UndefinedError(key, k), fetched |-> f2]
             ELSE LET o2 == Getter("*otto.Object", ValueObject(g.val)) IN
                  IF IfaceIsNil(o2)
                  THEN [val |-> g.val, err |-> ErrNilObject, fetched |-> f2]
                  ELSE DeepGetLoop(h, key, keys, i + 1, o2, g.val, f2)

\* DeepGet(key, o) where o is the object start of the heap h
DeepGet(key, start, h) ==
    DeepGetLoop(h, key, Split(key, "."), 1, Getter("*otto", start), Undefined, <<>>)

(***************************************************************************)
(* The calls made on the runtime.                                          *)
(***************************************************************************)
NoCall == [op |-> "none"]

\* the root names values are registered under; the second one is also the
\* exposed name of a nested struct field
Roots == { <<"t">>, <<"i">> }

\* the name, aliases and values bound with RegisterTo and RegisterToAliases
SubName == <<"r">>
SubAliases == << <<"q">> >>
SubValues == { GoInt(7), InnerObject }

\* the property and value a caller sets on an object it has resolved
SetName == <<"x">>
SetValue == GoInt(9)

Dotted(prefix, name) == prefix \o <<".">> \o name

\* the names a field may be looked up under: its exposed name and aliases,
\* or its Go name when it is omitted
RECURSIVE SeqToSet(_)
SeqToSet(q) == IF Len(q) = 0 THEN {} ELSE {Head(q)} \cup SeqToSet(Tail(q))

FieldLookups(f) ==
    LET ot == gettag(f) IN
    IF ot.omit THEN {f.Name} ELSE {ot.name} \cup SeqToSet(ot.aliases)

\* the dotted paths of the fields of v at every depth, below prefix
RECURSIVE PathsOf(_, _)
PathsOf(prefix, v) ==
    LET val == Indirect(v) IN
    IF val.kind # "Struct" THEN {}
    ELSE UNION { UNION { {Dotted(prefix, nm)} \cup
                         (IF gettag(val.val[i]).omit THEN {}
                          ELSE PathsOf(Dotted(prefix, nm), val.val[i].val))
                         : nm \in FieldLookups(val.val[i]) }
                 : i \in 1..Len(val.val) }

\* the keys DeepGet is called with after the call b: the name b bound, the
\* paths of the fields of its value, and each of these continued by one or
\* two segments the binder never binds; after a Set, those of the call
\* before it
RECURSIVE ProbeKeys(_)
ProbeKeys(b) ==
    IF b.op \in {"Register", "RegisterTo", "RegisterToAliases"}
    THEN LET known == {b.n} \cup PathsOf(b.n, b.v) IN
         known \cup { Dotted(p, SetName) : p \in known }
               \cup { Dotted(Dotted(b.n, SetName), <<"y">>) }
    ELSE IF b.op = "Set" THEN ProbeKeys(b.prev)
    ELSE Roots

\* the objects made by o.Object, which a caller may hold and bind into
PlainObjects(h) == { id \in 1..Len(h) : h[id].class = "Object" }

Init ==
    /\ heap = << NewObject("Global", NoHost) >>
    /\ bound = NoCall
    /\ got = NoCall
    /\ calls = 0
    /\ tagIn = [toks |-> << <<>> >>, field |-> [Name |-> <<"F">>, Tag |-> <<>>]]
    /\ tagOut = NoTag
    /\ stack = <<>>

Bind(op, n, v, obj, aliases, r) ==
    /\ heap' = r.heap
    /\ bound' = [op |-> op, n |-> n, v |-> v, obj |-> obj,
                 aliases |-> aliases, err |-> r.err]
    /\ got' = NoCall
    /\ calls' = calls + 1
    /\ UNCHANGED <<tagIn, tagOut, stack>>

\* err := Register(n, v, o)
DoRegister(n, v) ==
    /\ calls < MaxCalls
    /\ Bind("Register", n, v, Global, <<>>, Register(n, v, heap))

\* err := RegisterTo(n, v, o, obj) for an object obj the caller holds
DoRegisterTo(n, v, obj) ==
    /\ calls < MaxCalls
    /\ Bind("RegisterTo", n, v, obj, <<>>, RegisterTo(n, v, obj, heap))

\* err := RegisterToAliases(n, v, o, obj, aliases)
DoRegisterToAliases(n, v, obj, aliases) ==
    /\ calls < MaxCalls
    /\ Bind("RegisterToAliases", n, v, obj, aliases,
            RegisterToAliases(n, v, obj, aliases, heap))

\* res, err := DeepGet(key, o)
DoDeepGet(key) ==
    /\ got' = [op |-> "DeepGet", key |-> key, start |-> Global,
               ret |-> DeepGet(key, Global, heap)]
    /\ UNCHANGED <<heap, bound, calls, tagIn, tagOut, stack>>

\* res, err := DeepGet(key, o); res.Object().Set(k, v) when res is an object
DoSet(key, k, v) ==
    /\ calls < MaxCalls
    /\ LET r == DeepGet(key, Global, heap) IN
       /\ r.err = Nil
       /\ r.val.t = "object"
       /\ heap[r.val.v].class = "Object"
       /\ heap' = Set(heap, r.val.v, k, v)
       /\ bound' = [op |-> "Set", key |-> key, k |-> k, v |-> v,
                    obj |-> r.val.v, prev |-> bound]
    /\ got' = NoCall
    /\ calls' = calls + 1
    /\ UNCHANGED <<tagIn, tagOut, stack>>

Next ==
    \/ \E n \in Roots, v \in HostValues : DoRegister(n, v)
    \/ \E v \in SubValues, obj \in PlainObjects(heap) :
          DoRegisterTo(SubName, v, obj)
    \/ \E v \in SubValues, obj \in PlainObjects(heap) \cup {Global} :
          DoRegisterToAliases(SubName, v, obj, SubAliases)
    \/ \E key \in ProbeKeys(bound) : DoDeepGet(key)
    \/ \E key \in ProbeKeys(bound) : DoSet(key, SetName, SetValue)

Spec == Init /\ [][Next]_vars

(***************************************************************************)
(* gettag run on its own: one field, parsed once.                          *)
(***************************************************************************)
TagInit ==
    /\ heap = << NewObject("Global", NoHost) >>
    /\ bound = NoCall
    /\ got = NoCall
    /\ calls = 0
    /\ tagIn \in TagInputs
    /\ tagOut = NoTag
    /\ stack = <<>>

\* ot := gettag(&f)
DoGettag ==
    /\ tagOut = NoTag
    /\ tagOut' = gettag(tagIn.field)
    /\ UNCHANGED <<heap, bound, got, calls, tagIn, stack>>

TagNext == DoGettag

TagSpec == TagInit /\ [][TagNext]_vars

(***************************************************************************)
(* Claims about gettag, checked under TagSpec.                             *)
(***************************************************************************)
\* the tokens after the first that start with alias=, in order
AliasTokens(toks) ==
    SelectSeq(Tail(toks), LAMBDA t : Len(t) >= Len(AliasPrefix)
                                     /\ SubSeq(t, 1, Len(AliasPrefix)) = AliasPrefix)

\* what follows alias= in each of them
AliasNames(toks) ==
    LET at == AliasTokens(toks) IN
    [i \in 1..Len(at) |-> SubSeq(at[i], Len(AliasPrefix) + 1, Len(at[i]))]

\* the tag with every parameter that is no alias removed
KnownOnly(toks) == <<Head(toks)>> \o AliasTokens(toks)

C10_NameNonEmpty ==
    tagOut # NoTag => (tagOut.omit \/ Len(tagOut.name) > 0)

(***************************************************************************)
(* Claims about the binder and the resolver, checked under Spec.           *)
(***************************************************************************)
BindOps == { "Register", "RegisterTo", "RegisterToAliases" }

Supported(v) == Indirect(v).kind \notin UnsupportedKinds

IsStruct(v) == Indirect(v).kind = "Struct"

\* the object the segments keys[1..i] lead to from start by plain property
\* lookups, or 0 when one of them is not an object
RECURSIVE ObjAfter(_, _, _, _)
ObjAfter(h, start, keys, i) ==
    IF i = 0 THEN start
    ELSE LET o == ObjAfter(h, start, keys, i - 1) IN
         IF o = 0 THEN 0
         ELSE LET jv == GetProp(h, o, keys[i]) IN
              IF jv.t = "object" THEN jv.v ELSE 0

\* C1: Register(n, v) for a dot-free name n and a value v that is neither a
\* struct nor of an unsupported kind, followed by DeepGet(n) on the same
\* runtime, returns without error a value that gives back v (the final
\* segment being a primitive is no error).
C1_LeafRoundTrip ==
    ( /\ got.op = "DeepGet"
      /\ bound.op = "Register"
      /\ Supported(bound.v) /\ ~IsStruct(bound.v)
      /\ got.key = bound.n )
    => /\ bound.err = Nil
       /\ got.ret.err = Nil
       /\ Export(heap, got.ret.val) = bound.v

\* the string "w" was registered and read back
C1_Witness ==
    /\ got.op = "DeepGet"
    /\ bound.op = "Register"
    /\ bound.v = GoString(<<"w">>)
    /\ got.key = bound.n
    /\ got.ret.val = [t |-> "string", v |-> <<"w">>]

\* C4: when the segments before the i-th resolve to objects and the i-th is
\* undefined on the object reached, DeepGet returns undefined with
\* ErrUndefined of that segment, whatever the later segments are, and has
\* fetched no segment after it.
C4_FirstUndefined ==
    got.op = "DeepGet" =>
        LET keys == Split(got.key, ".") IN
        \A i \in 1..Len(keys) :
            LET o == ObjAfter(heap, got.start, keys, i - 1) IN
            (o # 0 /\ GetProp(heap, o, keys[i]) = Undefined)
            => /\ got.ret.val = Undefined
               /\ got.ret.err = ErrUndefined(keys[i])
               /\ got.ret.fetched = SubSeq(keys, 1, i)

\* a three-segment key failed at its second segment
C4_Witness ==
    /\ got.op = "DeepGet"
    /\ Len(Split(got.key, ".")) = 3
    /\ got.ret.err = ErrUndefined(Split(got.key, ".")[2])
    /\ Len(got.ret.fetched) = 2

\* v, or a field of v that is not omitted, at any depth, is of an
\* unsupported kind
RECURSIVE HasUnsupported(_)
HasUnsupported(v) ==
    LET val == Indirect(v) IN
    \/ val.kind \in UnsupportedKinds
    \/ /\ val.kind = "Struct"
       /\ \E i \in 1..Len(val.val) :
             ~gettag(val.val[i]).omit /\ HasUnsupported(val.val[i].val)

\* C6: an unsupported kind met at any depth of a bind call (the top-level
\* value or a struct field) makes the outermost call return
\* ErrUnsupportedKind, and no field after the failing one is bound.
C6_UnsupportedPropagates ==
    (bound.op \in BindOps /\ HasUnsupported(bound.v)) =>
        /\ bound.err = ErrUnsupportedKind
        /\ IsStruct(bound.v) =>
             LET fields == Indirect(bound.v).val IN
             \A i \in 1..Len(fields), j \in 1..Len(fields) :
                ( /\ i < j
                  /\ ~gettag(fields[i]).omit
                  /\ HasUnsupported(fields[i].val)
                  /\ GetProp(heap, bound.obj, bound.n).t = "object" )
                => GetProp(heap, GetProp(heap, bound.obj, bound.n).v,
                           gettag(fields[j]).name) = Undefined

\* C8: when a segment that is not the last one fetches a value that is
\* neither undefined nor an object, DeepGet returns the error "nil object".
C8_NonObjectIntermediate ==
    got.op = "DeepGet" =>
        LET keys == Split(got.key, ".") IN
        \A i \in 1..(Len(keys) - 1) :
            LET o == ObjAfter(heap, got.start, keys, i - 1) IN
            ( /\ o # 0
              /\ GetProp(heap, o, keys[i]).t \notin {"undefined", "object"} )
            => got.ret.err = ErrNilObject

\* C9: a bind call changes no property of an object that existed before the
\* call, other than obj[n] and obj[a] for each alias a; the global object
\* is such an object.
C9_Frame ==
    [][ bound'.op \in BindOps =>
          \A id \in 1..Len(heap) :
             \A k \in (DOMAIN heap[id].props) \cup (DOMAIN heap'[id].props) :
                \/ (id = bound'.obj /\ k \in {bound'.n} \cup SeqToSet(bound'.aliases))
                \/ GetProp(heap', id, k) = GetProp(heap, id, k) ]_vars

\* the fields of v that are not omitted, at every depth, each with the
\* dotted path of exposed names that leads to it from prefix
RECURSIVE FieldEntries(_, _)
FieldEntries(prefix, v) ==
    LET val == Indirect(v) IN
    IF val.kind # "Struct" THEN {}
    ELSE UNION {
           LET f == val.val[i]
               ot == gettag(f)
               key == Dotted(prefix, ot.name)
           IN  IF ot.omit THEN {}
               ELSE { [key |-> key, val |-> f.val] } \cup FieldEntries(key, f.val)
           : i \in 1..Len(val.val) }

\* jv is what the binder makes of the Go value v: an object made by
\* o.Object for a struct, and else a value that gives back v
Represents(h, jv, v) ==
    IF IsStruct(v)
    THEN jv.t = "object" /\ h[jv.v].class = "Object"
    ELSE Export(h, jv) = v

\* C2: after Register(n, v) of a struct v (or of a pointer to it), DeepGet
\* of the dotted path of exposed names of every field that is not omitted,
\* at any depth, succeeds and yields the bound representation of the
\* field's value.
C2_EveryFieldResolves ==
    (got.op = "DeepGet" /\ bound.op = "Register" /\ IsStruct(bound.v)
        /\ bound.err = Nil) =>
        \A e \in FieldEntries(bound.n, bound.v) :
            got.key = e.key
            => got.ret.err = Nil /\ Represents(heap, got.ret.val, e.val)

\* the Go names of the omitted fields of the struct v
OmittedNames(v) ==
    { Indirect(v).val[i].Name :
        i \in { j \in 1..Len(Indirect(v).val) : gettag(Indirect(v).val[j]).omit } }

\* the names the fields of the struct v that are not omitted are bound under
ExposedNames(v) ==
    UNION { FieldLookups(Indirect(v).val[i]) :
        i \in { j \in 1..Len(Indirect(v).val) : ~gettag(Indirect(v).val[j]).omit } }

\* C3 as stated: for a struct bound under n and a field of Go name F whose
\* tag is "-", DeepGet("n.F") returns undefined and ErrUndefined(F).
C3_OmittedUndefined ==
    (got.op = "DeepGet" /\ bound.op = "Register" /\ IsStruct(bound.v)) =>
        \A F \in OmittedNames(bound.v) :
            got.key = Dotted(bound.n, F)
            => got.ret.val = Undefined /\ got.ret.err = ErrUndefined(F)

\* C3 as amended: the same, provided F is no exposed name or alias of a
\* field of the struct that is not omitted.
C3_OmittedUndefinedUnlessExposed ==
    (got.op = "DeepGet" /\ bound.op = "Register" /\ IsStruct(bound.v)) =>
        \A F \in OmittedNames(bound.v) \ ExposedNames(bound.v) :
            got.key = Dotted(bound.n, F)
            => got.ret.val = Undefined /\ got.ret.err = ErrUndefined(F)

\* top.SkipMe of the tests' struct was looked up and is undefined
C3_Witness ==
    /\ got.op = "DeepGet"
    /\ bound.op = "Register"
    /\ Indirect(bound.v) = ObjectWithMethods
    /\ got.key = Dotted(bound.n, <<"K">>)
    /\ got.ret.err = ErrUndefined(<<"K">>)

\* the name lists (exposed name, then aliases) of the top-level fields of
\* the struct v whose value is a struct or a pointer to one and that declare
\* aliases; unless all, only of the fields whose names are identifiers that
\* no other field of v that is not omitted is bound under
AliasedComposites(v, all) ==
    LET fields == Indirect(v).val IN
    { <<gettag(fields[i]).name>> \o gettag(fields[i]).aliases :
        i \in { j \in 1..Len(fields) :
                  /\ ~gettag(fields[j]).omit
                  /\ Len(gettag(fields[j]).aliases) > 0
                  /\ IsStruct(fields[j].val)
                  /\ \/ all
                     \/ /\ \A nm \in FieldLookups(fields[j]) : IsIdentifier(nm)
                        /\ \A m \in 1..Len(fields) :
                              (m # j /\ ~gettag(fields[m]).omit)
                              => FieldLookups(fields[m]) \cap FieldLookups(fields[j]) = {} } }

\* after Register(n, v): every name of each of these fields resolves below
\* n to one and the same object made by o.Object; and after a property was
\* then set through one of the names, it is read through each of them
AliasesShareObject(all) ==
    /\ (got.op = "DeepGet" /\ bound.op = "Register" /\ IsStruct(bound.v)) =>
          \A names \in AliasedComposites(bound.v, all) :
             \A a \in SeqToSet(names) :
                got.key = Dotted(bound.n, a)
                => /\ got.ret.err = Nil
                   /\ got.ret.val.t = "object"
                   /\ heap[got.ret.val.v].class = "Object"
                   /\ \A b \in SeqToSet(names) :
                         DeepGet(Dotted(bound.n, b), Global, heap).val = got.ret.val
    /\ ( /\ got.op = "DeepGet"
         /\ bound.op = "Set"
         /\ bound.prev.op = "Register"
         /\ IsStruct(bound.prev.v) ) =>
          \A names \in AliasedComposites(bound.prev.v, all) :
             \A a \in SeqToSet(names), b \in SeqToSet(names) :
                ( /\ bound.key = Dotted(bound.prev.n, a)
                  /\ got.key = Dotted(Dotted(bound.prev.n, b), bound.k) )
                => /\ got.ret.err = Nil
                   /\ Export(heap, got.ret.val) = bound.v

MaxDepth == 6

\* the call has been made and has not returned
Running == [e |-> "running", k |-> <<>>]
\* the runtime has ended the process: the call returns nothing
StackOverflow == [e |-> "stack overflow", k |-> <<>>]

Frame(n, v, obj, aliases) ==
    [n |-> n, v |-> v, obj |-> obj, aliases |-> aliases,
     pc |-> "switch", s |-> 0, i |-> 0]

Top == stack[Len(stack)]
Callers == SubSeq(stack, 1, Len(stack) - 1)
Executing == bound # NoCall /\ bound.err = Running /\ stack # <<>>

\* return err: the frame is popped; the caller of Register keeps err, and
\* the field loop (line 140) drops it
Return(err) ==
    /\ stack' = Callers
    /\ bound' = IF Len(stack) = 1 THEN [bound EXCEPT !.err = err] ELSE bound

\* the values Register is called with frame by frame: a leaf, a channel,
\* the structs of the tests, the Node that is its own Next, the two Nodes
\* that are each other's Next, and the list of two Nodes
StepValues ==
    { GoInt(5), GoChan, GoPtr(2), Nested, WithChan,
      GoPtr(3), GoPtr(4), GoPtr(6) }

StepInit == Init

\* err := Register(n, v, o), entered; no call is made while one is running,
\* nor after the runtime has ended the process (its frames stay on stack)
CallRegister(n, v) ==
    /\ calls < MaxCalls
    /\ stack = <<>>
    /\ stack' = << Frame(n, v, Global, <<>>) >>
    /\ bound' = [op |-> "Register", n |-> n, v |-> v, obj |-> Global,
                 aliases |-> <<>>, err |-> Running, pre |-> heap]
    /\ calls' = calls + 1
    /\ got' = NoCall
    /\ UNCHANGED <<heap, tagIn, tagOut>>

\* lines 121-129 and 148-153: the switch on the kind of the value
EnterSwitch ==
    /\ Executing
    /\ Top.pc = "switch"
    /\ LET f == Top
           val == Indirect(f.v)
       IN IF val.kind \in UnsupportedKinds
          THEN /\ Return(ErrUnsupportedKind)
               /\ UNCHANGED heap
          ELSE IF val.kind = "Struct"
          THEN LET r == Object(heap, f.n \o ObjectLiteral) IN
               IF r.err # Nil
               THEN /\ Return(r.err)
                    /\ UNCHANGED heap
               ELSE /\ heap' = r.heap
                    /\ stack' = Append(Callers,
                                       [f EXCEPT !.pc = "fields",
                                                 !.s = r.obj, !.i = 1])
                    /\ UNCHANGED bound
          ELSE /\ heap' = SetNames(heap, f.obj, <<f.n>> \o f.aliases, f.v)
               /\ Return(Nil)
    /\ UNCHANGED <<got, calls, tagIn, tagOut>>

\* lines 135-142, one field: an omitted field is passed over; for any
\* other field RegisterToAliases is called again with the field's name,
\* value and aliases and the object s, and the loop goes on after it
NextField ==
    /\ Executing
    /\ Top.pc = "fields"
    /\ Top.i <= Len(Indirect(Top.v).val)
    /\ LET f == Top
           fld == Indirect(f.v).val[f.i]
           ot == gettag(fld)
           after == Append(Callers, [f EXCEPT !.i = f.i + 1])
       IN IF ot.omit
          THEN stack' = after
          ELSE /\ Len(stack) < MaxDepth
               /\ stack' = Append(after, Frame(ot.name, fld.val, f.s, ot.aliases))
    /\ UNCHANGED <<heap, bound, got, calls, tagIn, tagOut>>

\* line 140 when the goroutine stack has no room for one more frame: the
\* runtime ends the process, and Register returns neither nil nor an error
Overflow ==
    /\ Executing
    /\ Top.pc = "fields"
    /\ Top.i <= Len(Indirect(Top.v).val)
    /\ ~gettag(Indirect(Top.v).val[Top.i]).omit
    /\ Len(stack) = MaxDepth
    /\ bound' = [bound EXCEPT !.err = StackOverflow]
    /\ UNCHANGED <<heap, stack, got, calls, tagIn, tagOut>>

\* lines 143-147 after the last field: obj.Set(n, s), the aliases, return nil
SetStruct ==
    /\ Executing
    /\ Top.pc = "fields"
    /\ Top.i > Len(Indirect(Top.v).val)
    /\ heap' = SetNames(heap, Top.obj, <<Top.n>> \o Top.aliases,
                        [kind |-> "Object", val |-> Top.s])
    /\ Return(Nil)
    /\ UNCHANGED <<got, calls, tagIn, tagOut>>

StepRun == EnterSwitch \/ NextField \/ Overflow \/ SetStruct

StepNext ==
    \/ \E n \in Roots, v \in StepValues : CallRegister(n, v)
    \/ EnterSwitch
    \/ NextField
    \/ Overflow
    \/ SetStruct

\* Register runs synchronously on the caller's goroutine: a call that can
\* take a step takes it
StepSpec == StepInit /\ [][StepNext]_vars /\ WF_vars(StepRun)

(***************************************************************************)
(* Claims about termination, checked under StepSpec.                       *)
(***************************************************************************)
\* the addresses held by v and by the fields the binder visits in v
RECURSIVE Pointers(_)
Pointers(v) ==
    IF v.kind = "Ptr" THEN (IF v.val = 0 THEN {} ELSE {v.val})
    ELSE IF v.kind = "Struct"
    THEN UNION { IF gettag(v.val[i]).omit THEN {} ELSE Pointers(v.val[i].val)
                 : i \in 1..Len(v.val) }
    ELSE {}

\* the addresses the binder reaches from the addresses A
RECURSIVE ReachedFrom(_)
ReachedFrom(A) ==
    LET B == A \cup UNION { Pointers(HostMem[a]) : a \in A } IN
    IF B = A THEN A ELSE ReachedFrom(B)

\* v leads the binder to a struct that leads back to itself
Cyclic(v) ==
    \E a \in ReachedFrom(Pointers(v)) : a \in ReachedFrom(Pointers(HostMem[a]))

Returned == bound # NoCall /\ bound.op = "Register" /\ stack = <<>>
            /\ bound.err \notin {Running, StackOverflow}

\* C11: every Register call ends by returning nil or an error, for every
\* host value, a struct whose pointer fields form a cycle included: no call
\* is ended by the runtime for nesting calls without end
C11_Terminates ==
    bound # NoCall => bound.err # StackOverflow

\* a call on a value without a cycle is never ended by the runtime, and a
\* call on a value with a cycle never returns
OnlyCyclesOverflow ==
    /\ bound # NoCall /\ bound.err = StackOverflow => Cyclic(bound.v)
    /\ Returned => ~Cyclic(bound.v)

\* a call that has returned leaves the runtime and the error that
\* RegisterToAliases, taken as a whole, computes from the runtime before it
StepsAgreeWithCall ==
    Returned /\ ~Cyclic(bound.v) =>
        LET r == Register(bound.n, bound.v, bound.pre) IN
        /\ heap = r.heap
        /\ bound.err = r.err

\* a call on the list of two Nodes has returned nil
AcyclicListReturns ==
    Returned /\ bound.v = GoPtr(6) /\ bound.err = Nil

====
